---- MODULE Spec2Model ----
(***************************************************************************)
(* Model of name_anonymizer.py: initialize_anonymizer, anonymize_text and  *)
(* anonymize_dataframe_column.                                             *)
(*                                                                         *)
(* A text is a sequence of characters; a span [start, end) counts          *)
(* characters from 0.  A table cell is a pair <<kind, text>>: kind "str"   *)
(* is a Python string, "int" a number, "none" a null.                      *)
(* The detector (AnalyzerEngine.analyze) and the replacer                  *)
(* (AnonymizerEngine.anonymize) are Presidio calls.  The detector's result *)
(* is an input of the step that calls it.  The replacer is modelled by     *)
(* what Presidio's AnonymizerEngine does with the text, the detections and *)
(* the operators dict it is passed.  Either call may raise.                *)
(***************************************************************************)
EXTENDS Integers, Sequences, FiniteSets, TLC

VARIABLES pc, engine_config, df, column_name, new_column_name, idx,
          anonymized_values, text_to_anonymize, analyzer_results, stdout,
          ret, caller,
          args, returned_config, df_before, detected, row_results, calls

vars == <<pc, engine_config, df, column_name, new_column_name, idx,
          anonymized_values, text_to_anonymize, analyzer_results, stdout,
          ret, caller,
          args, returned_config, df_before, detected, row_results, calls>>

\* ---------------------------------------------------------------- bounds
\* the detections the detector reports during one call of anonymize_text or
\* of anonymize_dataframe_column
MaxDetections == 2

\* ------------------------------------------------------------ vocabulary
REDACTED == "[name redacted]"

EntityTypes == {"PERSON", "PREDEFINED_NAME", "LOCATION"}

Str(t) == <<"str", t>>
CellValues == {Str(<<"J">>), <<"int", <<"7">>>>, <<"none", <<>>>>}
OldValue == Str(<<"o", "l", "d">>)
\* "J P Q" and "A"
Texts == {<<"J", " ", "P", " ", "Q">>, <<"A">>}

\* The characters of the strings the replacer writes
Chars(str) ==
    CASE str = "[name redacted]" ->
             <<"[", "n", "a", "m", "e", " ",
               "r", "e", "d", "a", "c", "t", "e", "d", "]">>
      [] str = "<PERSON>" -> <<"<", "P", "E", "R", "S", "O", "N", ">">>
      [] str = "<PREDEFINED_NAME>" ->
             <<"<", "P", "R", "E", "D", "E", "F", "I", "N", "E", "D", "_",
               "N", "A", "M", "E", ">">>
      [] str = "<LOCATION>" ->
             <<"<", "L", "O", "C", "A", "T", "I", "O", "N", ">">>

Range(s) == {s[i] : i \in 1..Len(s)}
EmptyMap == [k \in {} |-> 0]

NoDenyList == [given |-> FALSE, items |-> <<>>]
DenyLists == {NoDenyList,
              [given |-> TRUE, items |-> <<>>],
              [given |-> TRUE, items |-> <<"ACME">>]}

NoRecognizer == [name |-> "None", supported_entities |-> {}]
FlairRecognizer == [name |-> "flair", supported_entities |-> {"PERSON", "LOCATION"}]
Recognizers == {NoRecognizer, FlairRecognizer}

\* registry.load_predefined_recognizers(): the built-in recognizer set
PredefinedRecognizers == [name |-> "predefined", supported_entities |-> {"PERSON", "LOCATION"}]

\* PatternRecognizer(supported_entity="PREDEFINED_NAME", deny_list=deny_list)
PatternRecognizer(deny_list) ==
    [name |-> "deny_list", supported_entities |-> {"PREDEFINED_NAME"}]

\* OperatorConfig("replace", {"new_value": v})
OperatorConfig(v) == [operator_name |-> "replace", new_value |-> v]

\* OperatorConfig("replace"), the operator without a new_value
DefaultOperator == [operator_name |-> "replace", new_value |-> ""]

\* the confidence levels of a detection's score
Scores == {1, 2}

\* Python truth value of the deny_list argument: None and [] are false
DenyListTruthy(deny_list) == deny_list.given /\ Len(deny_list.items) > 0

\* Python truth value of the flair_recognizer argument: None is false
RecognizerTruthy(r) == r # NoRecognizer

\* ------------------------------------------------- initialize_anonymizer
\* Variants of initialize_anonymizer, each with one slip
\* `if deny_list is not None` in place of `if deny_list`
initialize_anonymizer_not_none(deny_list, flair_recognizer) ==
    LET registry0 == <<PredefinedRecognizers>>
        registry1 == IF deny_list.given
                     THEN Append(registry0, PatternRecognizer(deny_list))
                     ELSE registry0
        registry2 == IF RecognizerTruthy(flair_recognizer)
                     THEN Append(registry1, flair_recognizer)
                     ELSE registry1
    IN [analyzer |-> [registry |-> registry2],
        anonymizer |-> "AnonymizerEngine",
        config |-> [k \in IF deny_list.given
                          THEN {"PERSON", "PREDEFINED_NAME"} ELSE {"PERSON"}
                      |-> OperatorConfig(REDACTED)],
        entities |-> IF deny_list.given
                     THEN <<"PERSON", "PREDEFINED_NAME">> ELSE <<"PERSON">>]

\* line 63 outside the `if deny_list` of line 61
initialize_anonymizer_unguarded_append(deny_list, flair_recognizer) ==
    LET registry0 == <<PredefinedRecognizers>>
        registry1 == IF DenyListTruthy(deny_list)
                     THEN Append(registry0, PatternRecognizer(deny_list))
                     ELSE registry0
        registry2 == IF RecognizerTruthy(flair_recognizer)
                     THEN Append(registry1, flair_recognizer)
                     ELSE registry1
    IN [analyzer |-> [registry |-> registry2],
        anonymizer |-> "AnonymizerEngine",
        config |-> [k \in IF DenyListTruthy(deny_list)
                          THEN {"PERSON", "PREDEFINED_NAME"} ELSE {"PERSON"}
                      |-> OperatorConfig(REDACTED)],
        entities |-> <<"PERSON", "PREDEFINED_NAME">>]

\* the auxiliary recognizer's LOCATION put on the scan list and in the mapping
initialize_anonymizer_aux_redacted(deny_list, flair_recognizer) ==
    LET registry0 == <<PredefinedRecognizers>>
        registry1 == IF DenyListTruthy(deny_list)
                     THEN Append(registry0, PatternRecognizer(deny_list))
                     ELSE registry0
        registry2 == IF RecognizerTruthy(flair_recognizer)
                     THEN Append(registry1, flair_recognizer)
                     ELSE registry1
        managed == IF DenyListTruthy(deny_list)
                   THEN <<"PERSON", "PREDEFINED_NAME">> ELSE <<"PERSON">>
        aux == IF "LOCATION" \in flair_recognizer.supported_entities
               THEN <<"LOCATION">> ELSE <<>>
    IN [analyzer |-> [registry |-> registry2],
        anonymizer |-> "AnonymizerEngine",
        config |-> [k \in Range(managed \o aux) |-> OperatorConfig(REDACTED)],
        entities |-> managed \o aux]

\* the auxiliary recognizer's LOCATION put on the scan list only
initialize_anonymizer_aux_scanned(deny_list, flair_recognizer) ==
    LET registry0 == <<PredefinedRecognizers>>
        registry1 == IF DenyListTruthy(deny_list)
                     THEN Append(registry0, PatternRecognizer(deny_list))
                     ELSE registry0
        registry2 == IF RecognizerTruthy(flair_recognizer)
                     THEN Append(registry1, flair_recognizer)
                     ELSE registry1
        managed == IF DenyListTruthy(deny_list)
                   THEN <<"PERSON", "PREDEFINED_NAME">> ELSE <<"PERSON">>
        aux == IF "LOCATION" \in flair_recognizer.supported_entities
               THEN <<"LOCATION">> ELSE <<>>
    IN [analyzer |-> [registry |-> registry2],
        anonymizer |-> "AnonymizerEngine",
        config |-> [k \in Range(managed) |-> OperatorConfig(REDACTED)],
        entities |-> managed \o aux]

initialize_anonymizer(deny_list, flair_recognizer) ==
    LET registry0 == <<PredefinedRecognizers>>
        registry1 == IF DenyListTruthy(deny_list)
                     THEN Append(registry0, PatternRecognizer(deny_list))
                     ELSE registry0
        registry2 == IF RecognizerTruthy(flair_recognizer)
                     THEN Append(registry1, flair_recognizer)
                     ELSE registry1
        analyzer_entites == IF DenyListTruthy(deny_list)
                            THEN <<"PERSON", "PREDEFINED_NAME">>
                            ELSE <<"PERSON">>
        anonymizer_config ==
            [k \in IF DenyListTruthy(deny_list)
                   THEN {"PERSON", "PREDEFINED_NAME"} ELSE {"PERSON"}
               |-> OperatorConfig(REDACTED)]
    IN [analyzer |-> [registry |-> registry2],
        anonymizer |-> "AnonymizerEngine",
        config |-> anonymizer_config,
        entities |-> analyzer_entites]

NoEngine == [analyzer |-> [registry |-> <<>>], anonymizer |-> "None",
             config |-> EmptyMap, entities |-> <<>>]

\* ------------------------------------------ analyzer.analyze (line 102)
\* The recognizers the registry hands out for the requested entities: those
\* supporting at least one of them.
SelectedRecognizers(registry, entities) ==
    {r \in Range(registry) : r.supported_entities \cap Range(entities) # {}}

\* The entity types a detection of this call can carry.
DetectableTypes(registry, entities) ==
    UNION {r.supported_entities : r \in SelectedRecognizers(registry, entities)}

\* The detector reports names of one word or of two neighbouring words: a
\* span starts where a word starts and ends where that word or the next ends.
WordStarts(text) ==
    {i \in 0..Len(text) - 1 :
        text[i + 1] # " " /\ (i = 0 \/ text[i] = " ")}
WordEnds(text) ==
    {i \in 1..Len(text) :
        text[i] # " " /\ (i = Len(text) \/ text[i + 1] = " ")}

Detections(text, types) ==
    {n \in [entity_type : types, start : WordStarts(text),
            end : WordEnds(text), score : Scores] :
        /\ n.start < n.end
        /\ Cardinality({w \in WordStarts(text) :
                           n.start < w /\ w < n.end}) <= 1}

\* The detection lists of at most `most` detections the detector can return
\* for a text: spans inside the text, in any order, overlapping or repeated;
\* src/ puts no condition on them.
DetectionLists(text, types, most) ==
    UNION {[1..n -> Detections(text, types)] : n \in 0..most}

\* the number of detections the detector has reported in the calls recorded
RECURSIVE Reported(_)
Reported(rows) ==
    IF rows = <<>> THEN 0
    ELSE Len(rows[1].results) + Reported(Tail(rows))

\* ------------------------------------ anonymizer.anonymize (lines 103-105)
\* Presidio's AnonymizerEngine.anonymize(text, analyzer_results, operators).
\* The detections are objects of the list it is passed: R is that list, and
\* the lists the engine builds of them hold positions of R.
Min2(a, b) == IF a <= b THEN a ELSE b
Max2(a, b) == IF a >= b THEN a ELSE b
First(S) == CHOOSE p \in S : \A q \in S : p <= q

\* RecognizerResult.intersects, contains, equal_indices, has_conflict, __gt__
intersects(a, b) ==
    IF a.end < b.start \/ b.end < a.start THEN 0
    ELSE Min2(a.end, b.end) - Max2(a.start, b.start)
contains(a, b) == a.start <= b.start /\ a.end >= b.end
equal_indices(a, b) == a.start = b.start /\ a.end = b.end
has_conflict(a, b) ==
    IF equal_indices(a, b) THEN a.score <= b.score ELSE contains(b, a)
gt(a, b) ==
    IF a.start = b.start THEN a.end > b.end ELSE a.start > b.start

\* list.remove(x): the first element equal to x (same type, span and score).
\* Every caller removes an element the list holds (the one it is visiting, or
\* the one it appended last); on a list without it list.remove raises, and
\* this has no value.
Remove(list, R, x) ==
    LET p == First({q \in 1..Len(list) : R[list[q]] = x})
    IN SubSeq(list, 1, p - 1) \o SubSeq(list, p + 1, Len(list))

\* First loop of the conflict removal: a detection that intersects another of
\* its type is dropped, and the other's start, end and score are rewritten to
\* cover both.
RECURSIVE merge_same_type(_, _, _, _)
merge_same_type(R, other_elements, tmp, i) ==
    IF i > Len(R) THEN [results |-> R, kept |-> tmp]
    ELSE LET rest == Remove(other_elements, R, R[i])
             hits == {p \in 1..Len(rest) :
                         /\ R[rest[p]].entity_type = R[i].entity_type
                         /\ intersects(R[i], R[rest[p]]) # 0}
         IN IF hits = {}
            THEN merge_same_type(R, Append(rest, i), Append(tmp, i), i + 1)
            ELSE LET j == rest[First(hits)]
                     both == [entity_type |-> R[j].entity_type,
                              start |-> Min2(R[i].start, R[j].start),
                              end |-> Max2(R[i].end, R[j].end),
                              score |-> Max2(R[i].score, R[j].score)]
                 IN merge_same_type([R EXCEPT ![j] = both], rest, tmp, i + 1)

\* Second loop: a detection is dropped when another has the same span and at
\* least its score, or contains it.  Detections of different types that only
\* partly overlap are both kept.
RECURSIVE remove_conflicts(_, _, _, _, _)
remove_conflicts(R, tmp, other_elements, unique, p) ==
    IF p > Len(tmp) THEN unique
    ELSE LET i == tmp[p]
             rest == Remove(other_elements, R, R[i])
         IN IF \E q \in 1..Len(rest) : has_conflict(R[i], R[rest[q]])
            THEN remove_conflicts(R, tmp, rest, unique, p + 1)
            ELSE remove_conflicts(R, tmp, Append(rest, i),
                                  Append(unique, i), p + 1)

\* re.search(r"^( )+$", text[from:to])
OnlySpaces(text, from, to) ==
    /\ from < to
    /\ \A c \in from + 1..to : text[c] = " "

\* _merge_entities_with_whitespace_between: a detection that follows one of
\* its type in the list, with only spaces between them in the text, takes the
\* other's start, and the other is dropped.
RECURSIVE merge_entities_with_whitespace_between(_, _, _, _, _)
merge_entities_with_whitespace_between(text, R, unique, merged, p) ==
    IF p > Len(unique) THEN [results |-> R, kept |-> merged]
    ELSE LET i == unique[p]
             joins == /\ p > 1
                      /\ R[unique[p - 1]].entity_type = R[i].entity_type
                      /\ OnlySpaces(text, R[unique[p - 1]].end, R[i].start)
         IN IF joins
            THEN merge_entities_with_whitespace_between(
                     text,
                     [R EXCEPT ![i] = [R[i] EXCEPT
                                          !.start = R[unique[p - 1]].start]],
                     unique,
                     Append(Remove(merged, R, R[unique[p - 1]]), i),
                     p + 1)
            ELSE merge_entities_with_whitespace_between(
                     text, R, unique, Append(merged, i), p + 1)

\* __check_or_add_default_operator: the engine writes a "DEFAULT" entry into
\* the operators dict it is passed when the dict has none.
check_or_add_default_operator(operators) ==
    IF "DEFAULT" \in DOMAIN operators THEN operators
    ELSE [k \in DOMAIN operators \cup {"DEFAULT"} |->
             IF k = "DEFAULT" THEN DefaultOperator ELSE operators[k]]

\* The replace operator without a new_value writes <ENTITY_TYPE>.
Placeholder(entity_type) ==
    CASE entity_type = "PERSON" -> "<PERSON>"
      [] entity_type = "PREDEFINED_NAME" -> "<PREDEFINED_NAME>"
      [] OTHER -> "<LOCATION>"

\* What is written over one detection: the new_value of the operator of its
\* type, or of the "DEFAULT" operator when its type has none.
Operate(n, operators) ==
    LET operator == IF n.entity_type \in DOMAIN operators
                    THEN operators[n.entity_type]
                    ELSE operators["DEFAULT"]
    IN IF operator.new_value = ""
       THEN Chars(Placeholder(n.entity_type))
       ELSE Chars(operator.new_value)

\* sorted(pii_entities, reverse=True)
RECURSIVE sorted_reverse(_, _)
sorted_reverse(R, list) ==
    IF list = <<>> THEN <<>>
    ELSE LET p == First({p \in 1..Len(list) :
                            \A q \in 1..Len(list) : ~gt(R[list[q]], R[list[p]])})
         IN <<list[p]>>
            \o sorted_reverse(R, SubSeq(list, 1, p - 1)
                                 \o SubSeq(list, p + 1, Len(list)))

\* _operate: the replacements are made from the end of the text to its start,
\* each on the output of the one before.  TextReplaceBuilder keeps the start
\* of the replacement it made last (at first the length of the text) and
\* cuts the text after a replacement there, or at the detection's end when
\* that comes first, so a replacement never eats into the one to its right.
RECURSIVE OperateFrom(_, _, _, _, _)
OperateFrom(output_text, R, order, operators, last_replacement_index) ==
    IF order = <<>> THEN output_text
    ELSE LET n == R[order[1]]
             end_of_text == Min2(n.end, last_replacement_index)
             before_text == SubSeq(output_text, 1,
                                   Min2(n.start, Len(output_text)))
             after_text == SubSeq(output_text, end_of_text + 1,
                                  Len(output_text))
         IN OperateFrom(before_text \o Operate(n, operators) \o after_text,
                        R, Tail(order), operators, n.start)

\* anonymizer.anonymize(text, analyzer_results, operators): the text it
\* returns, the detections of the list as it leaves them, and the
\* operators dict as it leaves it
anonymize(text, results, operators) ==
    LET same == merge_same_type(results,
                                [i \in 1..Len(results) |-> i], <<>>, 1)
        unique == remove_conflicts(same.results, same.kept, same.kept, <<>>, 1)
        merged == merge_entities_with_whitespace_between(
                      text, same.results, unique, <<>>, 1)
        with_default == check_or_add_default_operator(operators)
    IN [text |-> OperateFrom(text, merged.results,
                             sorted_reverse(merged.results, merged.kept),
                             with_default, Len(text)),
        results |-> merged.results,
        operators |-> with_default]

\* -------------------------------------------- anonymize_text (lines 97-107)
\* The pair returned for a text, given what the detector returned for it: the
\* replacer's text, and the detector's list with its detections as the
\* replacer left them.
anonymize_text(text, results, config) ==
    LET anonymized_result == anonymize(text, results, config)
    IN [text |-> anonymized_result.text,
        results |-> anonymized_result.results]

NoReturn == [text |-> <<>>, results |-> <<>>]

\* ------------------------------- anonymize_dataframe_column (lines 138-151)
\* str(value) of one cell
astype_str(v) ==
    IF v[1] = "str" THEN v
    ELSE IF v[1] = "none" THEN Str(<<"N", "o", "n", "e">>)
    ELSE Str(v[2])

\* df[name] = values
SetColumn(table, name, values) ==
    [c \in DOMAIN table \cup {name} |-> IF c = name THEN values ELSE table[c]]

\* df[column_name].astype(str)
astype_column(column) == [i \in 1..Len(column) |-> astype_str(column[i])]

\* Variant of line 144 with `or` in place of `and`
EdgeCase_or(n) == n.entity_type # "PREDEFINED_NAME" \/ n.entity_type # "PERSON"

\* line 144
EdgeCase(n) == n.entity_type # "PREDEFINED_NAME" /\ n.entity_type # "PERSON"

\* lines 143-146: what is printed for one row's detections
Printed(ent_list) == SelectSeq(ent_list, EdgeCase)

Columns == {"a", "b"}
\* the source columns of the tables: no row, one row of each kind of value,
\* and two rows of different kinds
SourceColumns ==
    {<<>>} \cup {<<v>> : v \in CellValues}
           \cup {<<<<"none", <<>>>>, Str(<<"J">>)>>,
                 <<Str(<<"J">>), <<"int", <<"7">>>>>>}
Tables ==
    UNION {{[c \in {"a"} |-> col],
            [c \in {"a", "b"} |-> IF c = "a" THEN col
                                  ELSE [i \in 1..Len(col) |-> OldValue]]}
           : col \in SourceColumns}
NoTable == [c \in {} |-> <<>>]

\* ----------------------------------------------------------------- state
Init ==
    /\ pc = "start"
    /\ engine_config = NoEngine
    /\ df = NoTable
    /\ column_name = "a"
    /\ new_column_name = "a"
    /\ idx = 0
    /\ anonymized_values = <<>>
    /\ text_to_anonymize = <<>>
    /\ analyzer_results = <<>>
    /\ stdout = <<>>
    /\ ret = NoReturn
    /\ caller = "none"
    /\ args = [deny_list |-> NoDenyList, flair_recognizer |-> NoRecognizer]
    /\ returned_config = NoEngine
    /\ df_before = NoTable
    /\ detected = <<>>
    /\ row_results = <<>>
    /\ calls = <<>>

\* engine_config = initialize_anonymizer(deny_list, flair_recognizer)
InitializeAnonymizer ==
    /\ pc = "start"
    /\ \E deny_list \in DenyLists, flair_recognizer \in Recognizers :
          /\ engine_config' = initialize_anonymizer(deny_list, flair_recognizer)
          /\ returned_config' = initialize_anonymizer(deny_list, flair_recognizer)
          /\ args' = [deny_list |-> deny_list, flair_recognizer |-> flair_recognizer]
    /\ pc' = "ready"
    /\ UNCHANGED <<df, column_name, new_column_name, idx, anonymized_values,
                   text_to_anonymize, analyzer_results, stdout, ret, caller,
                   df_before, detected, row_results, calls>>

\* a caller's anonymize_text(text, engine_config)
CallAnonymizeText ==
    /\ pc = "ready"
    /\ \E text \in Texts : text_to_anonymize' = text
    /\ caller' = "text"
    /\ pc' = "analyze"
    /\ idx' = 0
    /\ anonymized_values' = <<>>
    /\ analyzer_results' = <<>>
    /\ stdout' = <<>>
    /\ ret' = NoReturn
    /\ detected' = <<>>
    /\ row_results' = <<>>
    /\ calls' = <<>>
    /\ UNCHANGED <<engine_config, df, column_name, new_column_name,
                   args, returned_config, df_before>>

\* anonymize_dataframe_column(df, column_name, new_column_name, engine_config),
\* lines 138-139
CallAnonymizeColumn ==
    /\ pc = "ready"
    /\ \E table \in Tables, source \in Columns, target \in Columns :
          /\ source \in DOMAIN table
          /\ df_before' = table
          /\ column_name' = source
          /\ new_column_name' = target
          /\ df' = SetColumn(table, source, astype_column(table[source]))
    /\ caller' = "column"
    /\ pc' = "for"
    /\ idx' = 0
    /\ anonymized_values' = <<>>
    /\ text_to_anonymize' = <<>>
    /\ analyzer_results' = <<>>
    /\ stdout' = <<>>
    /\ ret' = NoReturn
    /\ detected' = <<>>
    /\ row_results' = <<>>
    /\ calls' = <<>>
    /\ UNCHANGED <<engine_config, args, returned_config>>

\* line 138 with a column_name the table does not have: KeyError
CallAnonymizeColumnKeyError ==
    /\ pc = "ready"
    /\ \E table \in Tables, source \in Columns, target \in Columns :
          /\ source \notin DOMAIN table
          /\ df_before' = table
          /\ column_name' = source
          /\ new_column_name' = target
          /\ df' = table
    /\ caller' = "column"
    /\ pc' = "raised"
    /\ idx' = 0
    /\ anonymized_values' = <<>>
    /\ text_to_anonymize' = <<>>
    /\ analyzer_results' = <<>>
    /\ stdout' = <<>>
    /\ ret' = NoReturn
    /\ detected' = <<>>
    /\ row_results' = <<>>
    /\ calls' = <<>>
    /\ UNCHANGED <<engine_config, args, returned_config>>

\* line 141: the next value of the column, and line 142's call
ForNext ==
    /\ pc = "for"
    /\ idx < Len(df[column_name])
    /\ text_to_anonymize' = df[column_name][idx + 1][2]
    /\ pc' = "analyze"
    /\ UNCHANGED <<engine_config, df, column_name, new_column_name, idx,
                   anonymized_values, analyzer_results, stdout, ret, caller,
                   args, returned_config, df_before,
                   detected, row_results, calls>>

\* lines 149-151: the column is exhausted
ForEnd ==
    /\ pc = "for"
    /\ idx = Len(df[column_name])
    /\ df' = SetColumn(df, new_column_name,
                       [i \in 1..Len(anonymized_values) |-> Str(anonymized_values[i])])
    /\ pc' = "done"
    /\ UNCHANGED <<engine_config, column_name, new_column_name, idx,
                   anonymized_values, text_to_anonymize, analyzer_results,
                   stdout, ret, caller, args,
                   returned_config, df_before, detected, row_results, calls>>

\* line 102: analyzer.analyze(text, entities, language='en') returns
Analyze ==
    /\ pc = "analyze"
    /\ \E results \in DetectionLists(text_to_anonymize,
                        DetectableTypes(engine_config.analyzer.registry,
                                        engine_config.entities),
                        MaxDetections - Reported(detected)) :
          /\ analyzer_results' = results
          /\ detected' = Append(detected,
                                [text |-> text_to_anonymize,
                                 entities |-> engine_config.entities,
                                 language |-> "en",
                                 results |-> results])
    /\ calls' = Append(calls, <<"analyze", idx + 1>>)
    /\ pc' = "anonymize"
    /\ UNCHANGED <<engine_config, df, column_name, new_column_name, idx,
                   anonymized_values, text_to_anonymize, stdout, ret, caller,
                   args, returned_config, df_before,
                   row_results>>

\* line 102 raises
AnalyzeRaises ==
    /\ pc = "analyze"
    /\ calls' = Append(calls, <<"analyze", idx + 1>>)
    /\ pc' = "raised"
    /\ UNCHANGED <<engine_config, df, column_name, new_column_name, idx,
                   anonymized_values, text_to_anonymize, analyzer_results,
                   stdout, ret, caller, args,
                   returned_config, df_before, detected, row_results>>

\* Variant: a row whose text came back with no detection is not appended
Anonymize_skips_undetected ==
    /\ pc = "anonymize"
    /\ calls' = Append(calls, <<"anonymize", idx + 1>>)
    /\ engine_config' =
           [engine_config EXCEPT
               !.config = check_or_add_default_operator(engine_config.config)]
    /\ LET r == anonymize_text(text_to_anonymize, analyzer_results,
                               engine_config.config)
       IN /\ row_results' = Append(row_results, r)
          /\ analyzer_results' = r.results
          /\ IF caller = "text"
             THEN /\ ret' = r
                  /\ pc' = "returned"
                  /\ UNCHANGED <<stdout, anonymized_values, idx>>
             ELSE /\ stdout' = stdout \o Printed(r.results)
                  /\ anonymized_values' = IF r.results = <<>>
                                          THEN anonymized_values
                                          ELSE Append(anonymized_values, r.text)
                  /\ idx' = idx + 1
                  /\ pc' = "for"
                  /\ UNCHANGED ret
    /\ UNCHANGED <<df, column_name, new_column_name, caller,
                   text_to_anonymize, args, returned_config, df_before,
                   detected>>

\* lines 103-107, and for a row of the column lines 143-147.  The replacer is
\* passed the bundle's own mapping (operators=config) and the detector's own
\* list: the "DEFAULT" entry it adds is in the bundle afterwards, and the
\* list returned on line 107 holds the detections as the replacer left them.
Anonymize ==
    /\ pc = "anonymize"
    /\ calls' = Append(calls, <<"anonymize", idx + 1>>)
    /\ engine_config' =
           [engine_config EXCEPT
               !.config = check_or_add_default_operator(engine_config.config)]
    /\ LET r == anonymize_text(text_to_anonymize, analyzer_results,
                               engine_config.config)
       IN /\ row_results' = Append(row_results, r)
          /\ analyzer_results' = r.results
          /\ IF caller = "text"
             THEN /\ ret' = r
                  /\ pc' = "returned"
                  /\ UNCHANGED <<stdout, anonymized_values, idx>>
             ELSE /\ stdout' = stdout \o Printed(r.results)
                  /\ anonymized_values' = Append(anonymized_values, r.text)
                  /\ idx' = idx + 1
                  /\ pc' = "for"
                  /\ UNCHANGED ret
    /\ UNCHANGED <<df, column_name, new_column_name, caller,
                   text_to_anonymize, args, returned_config, df_before,
                   detected>>

\* lines 103-105 raise, before or after the replacer has added its "DEFAULT"
\* entry to the bundle's mapping
AnonymizeRaises ==
    /\ pc = "anonymize"
    /\ calls' = Append(calls, <<"anonymize", idx + 1>>)
    /\ pc' = "raised"
    /\ \E operators \in {engine_config.config,
                         check_or_add_default_operator(engine_config.config)} :
          engine_config' = [engine_config EXCEPT !.config = operators]
    /\ UNCHANGED <<df, column_name, new_column_name, idx,
                   anonymized_values, text_to_anonymize, analyzer_results,
                   stdout, ret, caller, args,
                   returned_config, df_before, detected, row_results>>

\* the call is over (returned or raised); the caller goes on with the bundle
\* and drops the call's table and results
Return ==
    /\ pc \in {"done", "returned", "raised"}
    /\ pc' = "ready"
    /\ df' = NoTable
    /\ df_before' = NoTable
    /\ column_name' = "a"
    /\ new_column_name' = "a"
    /\ caller' = "none"
    /\ idx' = 0
    /\ anonymized_values' = <<>>
    /\ text_to_anonymize' = <<>>
    /\ analyzer_results' = <<>>
    /\ stdout' = <<>>
    /\ ret' = NoReturn
    /\ detected' = <<>>
    /\ row_results' = <<>>
    /\ calls' = <<>>
    /\ UNCHANGED <<engine_config, args, returned_config>>

Next ==
    \/ InitializeAnonymizer
    \/ CallAnonymizeText
    \/ CallAnonymizeColumn
    \/ CallAnonymizeColumnKeyError
    \/ ForNext
    \/ ForEnd
    \/ Analyze
    \/ AnalyzeRaises
    \/ Anonymize
    \/ AnonymizeRaises
    \/ Return

Spec == Init /\ [][Next]_vars

\* ---------------------------------------------------------------- claims
Built == pc # "start"
InColumnLoop == caller = "column" /\ pc \in {"for", "analyze", "anonymize"}
ManagedTypes == {"PERSON", "PREDEFINED_NAME"}
NonEmptyDenyList == args.deny_list.given /\ args.deny_list.items # <<>>

\* C1: the bundle initialize_anonymizer returns scans exactly [PERSON] and maps
\* exactly PERSON when deny_list is omitted or empty, scans exactly
\* [PERSON, PREDEFINED_NAME] and maps exactly those two when deny_list is
\* non-empty, and every mapped key is a replace operator with the marker
\* "[name redacted]".
C1_ReturnedBundle ==
    Built =>
        /\ IF NonEmptyDenyList
           THEN /\ returned_config.entities = <<"PERSON", "PREDEFINED_NAME">>
                /\ DOMAIN returned_config.config = {"PERSON", "PREDEFINED_NAME"}
           ELSE /\ returned_config.entities = <<"PERSON">>
                /\ DOMAIN returned_config.config = {"PERSON"}
        /\ \A k \in DOMAIN returned_config.config :
              returned_config.config[k] =
                  [operator_name |-> "replace", new_value |-> "[name redacted]"]

C1_Witness ==
    /\ pc = "ready"
    /\ args.deny_list.given
    /\ args.deny_list.items = <<>>
    /\ returned_config.entities = <<"PERSON">>

\* C2: from the moment the bundle is returned and through every later
\* anonymize_text and anonymize_dataframe_column call, every entity type of
\* the bundle's scan list has a redaction rule in the bundle's mapping.
C2_ScanListHasRules ==
    Built =>
        /\ Range(engine_config.entities) \subseteq DOMAIN engine_config.config
        /\ Range(returned_config.entities) \subseteq DOMAIN returned_config.config

C2_Witness ==
    /\ pc = "done"
    /\ Len(row_results) = 2
    /\ engine_config.entities = <<"PERSON", "PREDEFINED_NAME">>
    /\ args.flair_recognizer = FlairRecognizer

\* C3 as stated: an auxiliary recognizer is registered with the registry,
\* scan list and mapping are those of the bundle built from the same
\* deny_list without it, and none of the recognizer's entity types is on the
\* scan list or in the mapping.
C3_NoAuxiliaryTypeManaged ==
    Built =>
        /\ returned_config.entities =
               initialize_anonymizer(args.deny_list, NoRecognizer).entities
        /\ returned_config.config =
               initialize_anonymizer(args.deny_list, NoRecognizer).config
        /\ args.flair_recognizer # NoRecognizer =>
               /\ args.flair_recognizer \in Range(returned_config.analyzer.registry)
               /\ \A t \in args.flair_recognizer.supported_entities :
                     /\ t \notin Range(returned_config.entities)
                     /\ t \notin DOMAIN returned_config.config

\* C3, amended: an auxiliary recognizer is registered with the registry, and
\* scan list and mapping are those of the bundle built from the same
\* deny_list without it; an entity type of the recognizer is on the scan list,
\* and in the mapping, exactly when it is PERSON, or PREDEFINED_NAME with a
\* non-empty deny_list; every other entity type of the recognizer is neither
\* scanned for nor redactable.
C3_AuxiliaryOnlyRegistered ==
    Built =>
        /\ returned_config.entities =
               initialize_anonymizer(args.deny_list, NoRecognizer).entities
        /\ returned_config.config =
               initialize_anonymizer(args.deny_list, NoRecognizer).config
        /\ args.flair_recognizer # NoRecognizer =>
               /\ args.flair_recognizer \in Range(returned_config.analyzer.registry)
               /\ \A t \in args.flair_recognizer.supported_entities :
                     LET managed == \/ t = "PERSON"
                                    \/ t = "PREDEFINED_NAME" /\ NonEmptyDenyList
                     IN /\ t \in Range(returned_config.entities) <=> managed
                        /\ t \in DOMAIN returned_config.config <=> managed

C3_Witness ==
    /\ pc = "ready"
    /\ args.flair_recognizer = FlairRecognizer
    /\ FlairRecognizer \in Range(returned_config.analyzer.registry)
    /\ "LOCATION" \in args.flair_recognizer.supported_entities
    /\ "PERSON" \in args.flair_recognizer.supported_entities
    /\ "PERSON" \in Range(returned_config.entities)
    /\ "LOCATION" \notin Range(returned_config.entities)

\* C4: when anonymize_dataframe_column has completed on a table of n rows the
\* target column has n entries, and entry i is the text anonymize_text
\* returned for the text representation of the source column's value i; the
\* target column exists afterwards whether or not it did before, also when it
\* is the source column.
C4_TargetColumn ==
    pc = "done" =>
        /\ new_column_name \in DOMAIN df
        /\ Len(df[new_column_name]) = Len(df_before[column_name])
        /\ Len(row_results) = Len(df_before[column_name])
        /\ Len(detected) = Len(df_before[column_name])
        /\ \A i \in 1..Len(df_before[column_name]) :
              /\ i <= Len(detected)
              /\ i <= Len(row_results)
              /\ i <= Len(df[new_column_name])
              /\ detected[i].text = astype_str(df_before[column_name][i])[2]
              /\ df[new_column_name][i] = Str(row_results[i].text)

C4_Witness ==
    /\ pc = "done"
    /\ column_name = new_column_name
    /\ Len(df_before[column_name]) = 2
    /\ df_before[column_name][1][1] = "none"
    /\ df_before[column_name][2][1] = "str"
    /\ df[new_column_name][1] = Str(Chars(REDACTED))
    /\ df[new_column_name][2] = Str(<<"J">>)

Overlap(a, b) == a.start < b.end /\ b.start < a.end

\* the text occurs in the output, as it was
Occurs(part, output) ==
    \E j \in 0..Len(output) - Len(part) :
        SubSeq(output, j + 1, j + Len(part)) = part

\* C5: anonymize_text returns exactly the list the detector produced, in full
\* and unfiltered, and in the returned text only the detections whose type is
\* a key of the bundle's mapping are replaced: a text with no such detection
\* is returned as it was, and the span of a detection of any other type that
\* overlaps no other detection is left in the output as it was.
C5_UnmappedLeftAsIs ==
    pc = "returned" =>
        /\ Len(detected) = 1
        /\ ret.results = detected[1].results
        /\ (\A k \in 1..Len(detected[1].results) :
               detected[1].results[k].entity_type
                   \notin DOMAIN returned_config.config)
              => ret.text = text_to_anonymize
        /\ \A k \in 1..Len(detected[1].results) :
              LET n == detected[1].results[k]
              IN (/\ n.entity_type \notin DOMAIN returned_config.config
                  /\ \A j \in 1..Len(detected[1].results) :
                        j # k => ~Overlap(n, detected[1].results[j]))
                 => Occurs(SubSeq(text_to_anonymize, n.start + 1, n.end),
                           ret.text)

RECURSIVE NoticesOf(_)
NoticesOf(rows) ==
    IF rows = <<>> THEN <<>>
    ELSE LET Unmanaged(n) == n.entity_type \notin ManagedTypes
         IN SelectSeq(rows[1].results, Unmanaged) \o NoticesOf(Tail(rows))

\* C6: anonymize_dataframe_column prints one notice for each detection whose
\* type is neither PERSON nor PREDEFINED_NAME, in order, and none for any
\* other detection; a row's entry of the target column is the text
\* anonymize_text returned for it whether or not a notice was printed for it.
C6_Notices ==
    /\ caller = "column" => stdout = NoticesOf(row_results)
    /\ caller # "column" => stdout = <<>>
    /\ pc = "done" =>
          /\ new_column_name \in DOMAIN df
          /\ \A i \in 1..Len(row_results) :
                /\ i <= Len(df[new_column_name])
                /\ df[new_column_name][i] = Str(row_results[i].text)

C6_Witness ==
    /\ pc = "done"
    /\ Len(row_results) = 2
    /\ row_results[1].results =
           <<[entity_type |-> "LOCATION", start |-> 0, end |-> 4, score |-> 1]>>
    /\ row_results[2].results =
           <<[entity_type |-> "PERSON", start |-> 0, end |-> 1, score |-> 2]>>
    /\ stdout =
           <<[entity_type |-> "LOCATION", start |-> 0, end |-> 4, score |-> 1]>>
    /\ df[new_column_name][2] = Str(Chars(REDACTED))

\* C7: anonymize_dataframe_column returns the table with only the target
\* column added or overwritten; every other column, the source column
\* included when it is not the target, holds the values it held before.
C7_OtherColumnsUntouched ==
    pc = "done" =>
        /\ DOMAIN df = DOMAIN df_before \cup {new_column_name}
        /\ \A c \in DOMAIN df_before \ {new_column_name} : df[c] = df_before[c]

\* C8: when the detector or the replacer raises on a row, the target column
\* is neither created nor modified and no later row is processed.
C8_NoPartialResult ==
    (pc = "raised" /\ caller = "column" /\ calls # <<>>) =>
        /\ new_column_name \in DOMAIN df <=> new_column_name \in DOMAIN df_before
        /\ new_column_name \in DOMAIN df_before =>
              df[new_column_name] = df_before[new_column_name]
        /\ calls[Len(calls)][2] = idx + 1
        /\ Len(row_results) = idx

\* C9: anonymize_dataframe_column calls the detector and then the replacer
\* once for each row, in row order, one row's two calls before the next
\* row's; the target column is not assigned before the last row is done; the
\* bundle is not modified by any of these calls: it stays as
\* initialize_anonymizer returned it.
C9_Sequential ==
    /\ Built => engine_config = returned_config
    /\ caller = "column" =>
          /\ \A j \in 1..Len(calls) :
                calls[j] = <<IF j % 2 = 1 THEN "analyze" ELSE "anonymize",
                             (j + 1) \div 2>>
          /\ \A i \in 1..Len(detected) :
                /\ i <= Len(df_before[column_name])
                /\ detected[i].text = astype_str(df_before[column_name][i])[2]
          /\ pc = "done" => Len(calls) = 2 * Len(df_before[column_name])
    /\ InColumnLoop =>
          /\ new_column_name \in DOMAIN df <=> new_column_name \in DOMAIN df_before
          /\ new_column_name \in DOMAIN df =>
                df[new_column_name] =
                    IF new_column_name = column_name
                    THEN astype_column(df_before[column_name])
                    ELSE df_before[new_column_name]

\* every detection so far carries an entity type of the scan list its
\* detector call was given
DetectorInScope ==
    \A i \in 1..Len(detected) :
        \A k \in 1..Len(detected[i].results) :
            detected[i].results[k].entity_type \in Range(detected[i].entities)

\* C10: with a detector that returns only detections of the entity types it
\* is asked for, no row of any column produces a notice.
C10_NoNoticeInScope ==
    DetectorInScope => stdout = <<>>

C10_Witness ==
    /\ pc = "done"
    /\ DetectorInScope
    /\ args.flair_recognizer = FlairRecognizer
    /\ NonEmptyDenyList
    /\ Len(detected) = 2
    /\ detected[1].results =
           <<[entity_type |-> "PREDEFINED_NAME", start |-> 0, end |-> 4,
              score |-> 2]>>
    /\ detected[2].results =
           <<[entity_type |-> "PERSON", start |-> 0, end |-> 1, score |-> 1]>>

====
